---- MODULE Spec2Model ----
(***************************************************************************)
(* podcatcher-rs: the sync-and-download engine.                            *)
(*                                                                         *)
(*   cli.rs       main: directory check, fetch_sync_info, size report,     *)
(*                Status listing, for_each_concurrent download stage       *)
(*   download.rs  to_human_size, retrieve_content_length, download_file,   *)
(*                fetch_sync_info (buffered fetch stage + planner)         *)
(*                                                                         *)
(* All futures of a stage are polled by the one main task, so a step of    *)
(* the model is the code between two await points of one future.  The      *)
(* wait for the registry lock is kept as a step of its own.                *)
(***************************************************************************)
EXTENDS Integers, Sequences, FiniteSets, TLC

----------------------------------------------------------------------------
(* Bounds of the model *)

\* longest configured podcast list
MaxPodcasts == 2
\* largest configured max_parallel_downloads
MaxJobs == 2
\* most chunks a response body is delivered in
MaxChunks == 1
\* runs of the program in a row over the same download directory
MaxRuns == 2
\* width of usize, scaled down from 64 bits
UsizeBits == 3
\* longest declared length string of an enclosure
MaxLengthLen == 2

\* cli.rs:57 unwrap_or(5usize)
DefaultJobs == 5

UsizeMax == 2 ^ UsizeBits - 1

----------------------------------------------------------------------------
(* Option<T>: None is the empty sequence, Some(x) a sequence of one *)

None == << >>
Some(x) == << x >>
IsSome(o) == Len(o) = 1
UnwrapOr(o, d) == IF IsSome(o) THEN o[1] ELSE d

----------------------------------------------------------------------------
(* str::parse::<usize>: an optional '+', then one or more decimal digits,  *)
(* failing on overflow.  A string is a sequence of characters.             *)

Digits == {"0", "1", "2", "3", "4", "5", "6", "7", "8", "9"}

DigitVal(c) ==
  CASE c = "0" -> 0 [] c = "1" -> 1 [] c = "2" -> 2 [] c = "3" -> 3
    [] c = "4" -> 4 [] c = "5" -> 5 [] c = "6" -> 6 [] c = "7" -> 7
    [] c = "8" -> 8 [] c = "9" -> 9

RECURSIVE DecVal(_)
DecVal(s) ==
  IF Len(s) = 0 THEN 0
  ELSE 10 * DecVal(SubSeq(s, 1, Len(s) - 1)) + DigitVal(s[Len(s)])

ParseUsize(s) ==
  LET body == IF Len(s) > 0 /\ s[1] = "+" THEN Tail(s) ELSE s
  IN  IF Len(body) = 0 THEN None
      ELSE IF \E i \in 1..Len(body) : body[i] \notin Digits THEN None
      ELSE IF DecVal(body) > UsizeMax THEN None
      ELSE Some(DecVal(body))

\* a check that lets a zero length through
Positive_OrZero(n) == n >= 0

\* download.rs:72 and :172-178: .and_then(|n| if n > 0 { Some(n) } else { None })
Positive(n) == n > 0

NonZero(o) == IF IsSome(o) /\ Positive(o[1]) THEN o ELSE None

\* download.rs:172: enc.length.parse().ok().and_then(..)
DeclaredSize(length) == NonZero(ParseUsize(length))

----------------------------------------------------------------------------
(* URLs.  A URL string is the sequence of its pieces between '/':          *)
(* "https://h/ep/a.mp3" is <<"https:", "", "h", "ep", "a.mp3">>.           *)

\* reqwest::Url::parse: an absolute URL with a scheme and a host
UrlParse(s) ==
  IF Len(s) >= 3 /\ s[1] = "https:" /\ s[2] = "" /\ s[3] # ""
  THEN Some([host |-> s[3], path |-> SubSeq(s, 4, Len(s))])
  ELSE None

\* PathBuf::from(url.path()).file_name(): the last non-empty component
RECURSIVE PathFileName(_)
PathFileName(path) ==
  IF Len(path) = 0 THEN None
  ELSE IF path[Len(path)] # "" THEN Some(path[Len(path)])
  ELSE PathFileName(SubSeq(path, 1, Len(path) - 1))

\* download.rs:190-194
FileName(url) == UnwrapOr(PathFileName(url.path), "episode.mp3")

----------------------------------------------------------------------------
(* The planner: the synchronous second half of fetch_sync_info.  A title,  *)
(* like a URL, is the sequence of its pieces between '/'.                  *)

\* Result<T, E>
Ok(x) == [ok |-> TRUE, val |-> x]
Err == [ok |-> FALSE]

\* the configured download directory, as path components
Directory == << "dl" >>

\* download.rs:161: podcast.title.unwrap_or(channel.title)
EffectiveTitle(podcast, channel) == UnwrapOr(podcast.title, channel.title)

\* the components of a path string: its non-empty pieces
RECURSIVE Components(_)
Components(s) ==
  IF Len(s) = 0 THEN << >>
  ELSE (IF Head(s) # "" THEN << Head(s) >> ELSE << >>) \o Components(Tail(s))

\* Path::is_absolute: the string starts with '/'
IsAbsolute(s) == Len(s) >= 2 /\ s[1] = ""

\* PathBuf::push: an absolute path replaces the buffer (the root is kept as
\* the component ""), a relative one is appended to it
PathPush(path, s) ==
  IF IsAbsolute(s) THEN << "" >> \o Components(s)
  ELSE path \o Components(s)

\* download.rs:162-163: directory.clone() with the title pushed
PodcastPath(podcast, channel) ==
  PathPush(Directory, EffectiveTitle(podcast, channel))

\* download.rs:168-203: the filter_map closure, for one item
EpisodeOf(item, path) ==
  IF ~IsSome(item.enclosure) THEN None
  ELSE LET enc == item.enclosure[1]
           url == UrlParse(enc.url)
       IN  IF ~IsSome(url) THEN None
           ELSE Some([guid      |-> UnwrapOr(item.guid, enc.url),
                      url       |-> url[1],
                      file_size |-> DeclaredSize(enc.length),
                      file_path |-> Append(path, FileName(url[1]))])

\* download.rs:165-203: channel.items.into_iter().filter_map(..)
RECURSIVE Episodes(_, _)
Episodes(items, path) ==
  IF Len(items) = 0 THEN << >>
  ELSE EpisodeOf(Head(items), path) \o Episodes(Tail(items), path)

\* an iterator adaptor that passes every element on
Take_All(s, n) == s

\* Iterator::take
Take(s, n) == SubSeq(s, 1, IF Len(s) < n THEN Len(s) ELSE n)

\* an existence check that never finds the file
Exists_Never(file_path, d) == FALSE

\* Path::exists, d the files present under the download directory
Exists(file_path, d) == file_path \in d

\* Iterator::filter
RECURSIVE Filter(_, _)
Filter(s, d) ==
  IF Len(s) = 0 THEN << >>
  ELSE (IF ~Exists(Head(s).file_path, d) THEN << Head(s) >> ELSE << >>)
       \o Filter(Tail(s), d)

\* the two adaptors in the other order: .filter(..).take(1)
Select_FilterFirst(episodes, d) == Take(Filter(episodes, d), 1)

\* download.rs:204-205: .take(1).filter(|dl| !dl.file_path.exists())
Select(episodes, d) == Filter(Take(episodes, 1), d)

\* download.rs:159-206: the flat_map closure, for one unwrapped result
PodcastPlan(r, d) ==
  Select(Episodes(r.channel.items, PodcastPath(r.podcast, r.channel)), d)

\* download.rs:157-207: results.into_iter().flat_map(..).collect()
RECURSIVE PlanOf(_, _)
PlanOf(rs, d) ==
  IF Len(rs) = 0 THEN << >>
  ELSE PodcastPlan(Head(rs).val, d) \o PlanOf(Tail(rs), d)

\* download.rs:160: result.unwrap() panics on the first Err
PlanPanics(rs) == \E i \in 1..Len(rs) : ~rs[i].ok

----------------------------------------------------------------------------
(* The size report of main                                                 *)

\* usize addition that wraps (a build without overflow checks)
WrappingAdd(a, b) == (a + b) % (UsizeMax + 1)

\* cli.rs:67-73: fold((0, false), ..)
RECURSIVE FoldSizes(_, _)
FoldSizes(files, acc) ==
  IF Len(files) = 0 THEN acc
  ELSE LET size == UnwrapOr(Head(files).file_size, 0)
       IN  FoldSizes(Tail(files),
                     [total    |-> WrappingAdd(acc.total, size),
                      partial  |-> acc.partial \/ size = 0,
                      overflow |-> acc.overflow \/ acc.total + size > UsizeMax])

\* the size formatter with strict comparisons
to_human_size_Strict(size) ==
  IF size > 1000000000 THEN << size \div 1000000000, "G" >>
  ELSE IF size > 1000000 THEN << size \div 1000000, "M" >>
  ELSE IF size > 1000 THEN << size \div 1000, "K" >>
  ELSE << size, "B" >>

\* download.rs:46-53
to_human_size(size) ==
  IF size >= 1000000000 THEN << size \div 1000000000, "G" >>
  ELSE IF size >= 1000000 THEN << size \div 1000000, "M" >>
  ELSE IF size >= 1000 THEN << size \div 1000, "K" >>
  ELSE << size, "B" >>

\* cli.rs:67-75: the folded sizes and the total in human form
SizeReport(files) ==
  LET sizes == FoldSizes(files,
                         [total |-> 0, partial |-> FALSE, overflow |-> FALSE])
  IN  [total    |-> sizes.total,
       partial  |-> sizes.partial,
       overflow |-> sizes.overflow,
       human    |-> to_human_size(sizes.total)]

----------------------------------------------------------------------------
(* The world outside the program: the configuration file and the servers   *)

Item(url, length) ==
  [enclosure |-> Some([url |-> url, length |-> length]), guid |-> None]
NoEnclosure == [enclosure |-> None, guid |-> Some("g0")]

UrlFeedA == << "https:", "", "h", "fA" >>
UrlFeedB == << "https:", "", "h", "fB" >>
UrlFeedC == << "https:", "", "h", "fC" >>
UrlFeedX == << "https:", "", "h", "fX" >>
UrlBad   == << "fA" >>

ChannelA ==
  [title |-> << "T1" >>,
   items |-> << Item(<< "https:", "", "h", "ep", "a.mp3" >>, << "3" >>),
                Item(<< "https:", "", "h", "ep", "b.mp3" >>, << "x" >>) >>]
ChannelB ==
  [title |-> << "T2" >>,
   items |-> << NoEnclosure,
                Item(<< "ep", "c.mp3" >>, << "5" >>),
                Item(<< "https:", "", "h", "a.mp3" >>, << "0" >>),
                Item(<< "https:", "", "h", "b.mp3" >>, << "2" >>) >>]
ChannelC ==
  [title |-> << "T3" >>,
   items |-> << Item(<< "https:", "", "h" >>, << "+", "5" >>) >>]

\* what the feed server holds at a URL; rss::Channel::read_from fails on
\* a body that is no feed (download.rs:149)
ReadChannel(url) ==
  CASE FileName(url) = "fA" -> Some(ChannelA)
    [] FileName(url) = "fB" -> Some(ChannelB)
    [] FileName(url) = "fC" -> Some(ChannelC)
    [] OTHER -> None

\* config.rs: PodcastConfig, with the title download.rs:161 reads
Podcasts ==
  { [feed_url |-> UrlFeedA, title |-> None],
    [feed_url |-> UrlFeedB, title |-> Some(<< "T1" >>)],
    [feed_url |-> UrlFeedC, title |-> None],
    [feed_url |-> UrlFeedX, title |-> None],
    [feed_url |-> UrlBad,   title |-> None] }

PodcastLists == UNION { [1..n -> Podcasts] : n \in 0..MaxPodcasts }

Commands == { "Status", "Sync" }

\* files found under the download directory when the program first runs
InitialDisks == SUBSET { << "dl", "T1", "a.mp3" >> }

\* answers to a HEAD request: whether a success response came, and its
\* Content-Length header if it has one
HeadResponses ==
  { [ok |-> FALSE, len |-> None],
    [ok |-> TRUE,  len |-> None],
    [ok |-> TRUE,  len |-> Some(<< "0" >>)],
    [ok |-> TRUE,  len |-> Some(<< "4" >>)] }

\* download.rs:58-77
ContentLength(resp) ==
  IF resp.ok /\ IsSome(resp.len) THEN NonZero(ParseUsize(resp.len[1]))
  ELSE None

----------------------------------------------------------------------------
(* State                                                                   *)

VARIABLES
  command,                  \* args.command
  download_dir_is_dir,      \* config.download_dir.is_dir()
  max_parallel_downloads,   \* config.max_parallel_downloads
  podcast,                  \* config.podcast
  disk,                     \* files under the download directory
  dirs,                     \* directories under the download directory
  run,                      \* which run of the program this is
  prev,                     \* how the run before ended
  disk0,                    \* disk and dirs when this run started, and
                            \* the files earlier runs left half-written
  pc,                       \* where main is
  tasks,                    \* the futures of the current stage
  started,                  \* futures taken from the stage's stream
  collected,                \* fetch results handed to collect()
  results,                  \* the collected fetch results
  files,                    \* files_to_download
  report,                   \* (total_size, is_partial)
  lock,                     \* holder of the stage's Mutex<Progress>, 0 if free
  net                       \* requests issued in this run

vars == << command, download_dir_is_dir, max_parallel_downloads, podcast,
           disk, dirs, run, prev, disk0, pc, tasks, started, collected,
           results, files, report, lock, net >>

config == << command, download_dir_is_dir, max_parallel_downloads, podcast >>

\* cli.rs:57
max_jobs == UnwrapOr(max_parallel_downloads, DefaultJobs)

Idle == [pc |-> "idle", size |-> None, bar |-> None]

\* a future that was polled and has not completed
Running ==
  { "head", "lockbar", "inbar", "send", "recv", "lockinc", "ininc", "write" }

Active == { i \in DOMAIN tasks : tasks[i].pc \in Running }

\* the panics of main: unwrap() of a failed fetch (download.rs:160), the
\* overflowing addition (cli.rs:72), unwrap() in a download (cli.rs:107-117)
Panicked == { "panic_plan", "panic_sum", "panic_download" }

Terminal == { "nodir", "nothing", "status", "done" } \cup Panicked

NoReport == [total |-> 0, partial |-> FALSE, overflow |-> FALSE,
             human |-> << 0, "B" >>]

DirsOf(d) == { SubSeq(f, 1, Len(f) - 1) : f \in d }

\* the arguments, a configuration with a job limit of at least 1 (or none)
\* and the download directory as the first run finds it
Init ==
  /\ command \in Commands
  /\ download_dir_is_dir \in BOOLEAN
  /\ max_parallel_downloads \in { None } \cup { Some(n) : n \in 1..MaxJobs }
  /\ podcast \in PodcastLists
  /\ disk \in IF download_dir_is_dir THEN InitialDisks ELSE { {} }
  /\ dirs = DirsOf(disk)
  /\ run = 1
  /\ prev = "none"
  /\ disk0 = [disk |-> disk, dirs |-> dirs, interrupted |-> { }]
  /\ pc = "start"
  /\ tasks = << >>
  /\ started = 0
  /\ collected = 0
  /\ results = << >>
  /\ files = << >>
  /\ report = NoReport
  /\ lock = 0
  /\ net = {}

----------------------------------------------------------------------------
(* main, up to the fetch stage                                             *)

StageStart(n) ==
  /\ tasks' = [i \in 1..n |-> Idle]
  /\ started' = 0
  /\ lock' = 0

\* cli.rs:49-59
\* a run that does not look at the download directory
DirMissing_Ignored == FALSE

\* cli.rs:49: !config.download_dir.is_dir()
DirMissing == ~download_dir_is_dir

CheckDir ==
  /\ pc = "start"
  /\ IF DirMissing
     THEN /\ pc' = "nodir"
          /\ UNCHANGED << tasks, started, lock >>
     ELSE /\ pc' = "fetch"
          /\ StageStart(Len(podcast))
  /\ UNCHANGED << config, disk, dirs, run, prev, disk0, collected, results,
                  files, report, net >>

\* the request a task of the current stage sends
Request(method) ==
  IF pc = "fetch" THEN << "feed", method >> ELSE << "enclosure", method >>

\* a download_file that asks for the length whatever size it was given
Enter_HeadAlways(file_size) ==
  [pc |-> "head", size |-> file_size, bar |-> None]

\* download.rs:93-96 and :103-104: the first await of download_file
Enter(file_size) ==
  IF IsSome(file_size)
  THEN [pc |-> "lockbar", size |-> file_size, bar |-> None]
  ELSE [pc |-> "head", size |-> None, bar |-> None]

EnterNet(file_size) ==
  IF IsSome(file_size) THEN net ELSE net \cup { Request("HEAD") }

\* a stream that takes every future at once
FetchSlotFree_Unbounded == TRUE

\* download.rs:153: buffered(max_jobs) takes the next future while fewer
\* than max_jobs are queued or await collection
FetchSlotFree == started - collected < max_jobs

\* download.rs:133-153: the next fetch is taken from the stream, and its
\* first poll runs it to the first await (download.rs:139-148)
StartFetch(i) ==
  /\ pc = "fetch"
  /\ i = started + 1
  /\ i <= Len(podcast)
  /\ FetchSlotFree
  /\ started' = i
  /\ LET url == UrlParse(podcast[i].feed_url)
     IN  IF IsSome(url)
         THEN /\ tasks' = [tasks EXCEPT ![i] = Enter(None)]
              /\ net' = EnterNet(None)
         ELSE /\ tasks' = [tasks EXCEPT ![i].pc = "err"]
              /\ net' = net
  /\ UNCHANGED << config, disk, dirs, run, prev, disk0, pc, collected,
                  results, files, report, lock >>

\* download.rs:150: Ok((podcast, channel)), or the error of a `?`
FetchResult(i) ==
  IF tasks[i].pc = "ok"
  THEN Ok([podcast |-> podcast[i],
           channel |-> ReadChannel(UrlParse(podcast[i].feed_url)[1])[1]])
  ELSE Err

\* download.rs:153-155: buffered yields results in submission order
Collect ==
  /\ pc = "fetch"
  /\ collected < started
  /\ tasks[collected + 1].pc \in { "ok", "err" }
  /\ results' = Append(results, FetchResult(collected + 1))
  /\ collected' = collected + 1
  /\ UNCHANGED << config, disk, dirs, run, prev, disk0, pc, tasks, started,
                  files, report, lock, net >>

----------------------------------------------------------------------------
(* download_file, one future i of the current stage                        *)

InStage == pc \in { "fetch", "exec" }

\* cli.rs:116-117: unwrap() of a failed download panics in main, and the
\* unwinding drops the stream with every future it holds
Dropped(i) ==
  [j \in DOMAIN tasks |->
     IF j = i THEN [tasks[j] EXCEPT !.pc = "err"]
     ELSE IF tasks[j].pc \in Running THEN [tasks[j] EXCEPT !.pc = "dropped"]
     ELSE tasks[j]]

\* a failed download that removes its target file
LeftOnDisk_Removed(i) ==
  IF pc = "exec" THEN disk \ { files[i].file_path } ELSE disk

\* cli.rs:116-117: nothing removes the file of a failed download
LeftOnDisk(i) == disk

\* download_file returned Err: the fetch future yields it (download.rs:148),
\* the download future unwraps it (cli.rs:117)
Failed(i) ==
  /\ disk' = LeftOnDisk(i)
  /\ IF pc = "fetch"
     THEN /\ tasks' = [tasks EXCEPT ![i].pc = "err"]
          /\ pc' = pc
     ELSE /\ tasks' = Dropped(i)
          /\ pc' = "panic_download"

\* download_file returned Ok: the fetch future parses the body
\* (download.rs:149), the download future is complete
Succeeded(i) ==
  IF pc = "fetch" /\ ~IsSome(ReadChannel(UrlParse(podcast[i].feed_url)[1]))
  THEN tasks' = [tasks EXCEPT ![i].pc = "err"]
  ELSE tasks' = [tasks EXCEPT ![i].pc = "ok"]

\* download.rs:95: the HEAD request is answered
HeadDone(i) ==
  /\ InStage /\ tasks[i].pc = "head"
  /\ \E resp \in HeadResponses :
       tasks' = [tasks EXCEPT ![i].pc = "lockbar",
                              ![i].size = ContentLength(resp)]
  /\ UNCHANGED << config, disk, dirs, run, prev, disk0, pc, started,
                  collected, results, files, report, lock, net >>

\* a lock that is granted while it is held
LockFree_Always == TRUE

\* futures::lock::Mutex::lock: completes when no one holds the lock
LockFree == lock = 0

\* a guard bound to a name that lives to the end of the block
GuardDropped_AtBlockEnd(i) == i

\* download.rs:104 and :114-117: the MutexGuard is a temporary of the
\* statement and dropped at its end; the value of lock after the statement
GuardDropped(i) == 0

\* download.rs:104 and :114-116: multibar.lock().await
Acquire(i) ==
  /\ InStage /\ tasks[i].pc \in { "lockbar", "lockinc" }
  /\ LockFree
  /\ lock' = i
  /\ tasks' = [tasks EXCEPT
                 ![i].pc = IF tasks[i].pc = "lockbar" THEN "inbar" ELSE "ininc"]
  /\ UNCHANGED << config, disk, dirs, run, prev, disk0, pc, started,
                  collected, results, files, report, net >>

\* download.rs:103-107: bar(bar_size, label), the guard dropped, the GET sent
CreateBar(i) ==
  /\ InStage /\ tasks[i].pc = "inbar"
  /\ tasks' = [tasks EXCEPT
                 ![i].pc = "send",
                 ![i].bar = Some([total |-> UnwrapOr(tasks[i].size, 1),
                                  cur   |-> 0])]
  /\ lock' = GuardDropped(i)
  /\ net' = net \cup { Request("GET") }
  /\ UNCHANGED << config, disk, dirs, run, prev, disk0, pc, started,
                  collected, results, files, report >>

\* download.rs:107: request.send().await answered with a response
SendDone(i) ==
  /\ InStage /\ tasks[i].pc = "send"
  /\ tasks' = [tasks EXCEPT ![i].pc = "recv"]
  /\ UNCHANGED << config, disk, dirs, run, prev, disk0, pc, started,
                  collected, results, files, report, lock, net >>

\* download.rs:107: request.send().await? on a transport error
SendFail(i) ==
  /\ InStage /\ tasks[i].pc = "send"
  /\ Failed(i)
  /\ UNCHANGED << config, dirs, run, prev, disk0, started, collected,
                  results, files, report, lock, net >>

\* download.rs:113: download.chunk().await? yields Some(chunk)
ChunkRecv(i) ==
  /\ InStage /\ tasks[i].pc = "recv"
  /\ tasks[i].bar[1].cur < MaxChunks
  /\ tasks' = [tasks EXCEPT ![i].pc = "lockinc"]
  /\ UNCHANGED << config, disk, dirs, run, prev, disk0, pc, started,
                  collected, results, files, report, lock, net >>

\* download.rs:113 and :121: chunk() yields None, the body is complete
ChunkEnd(i) ==
  /\ InStage /\ tasks[i].pc = "recv"
  /\ Succeeded(i)
  /\ UNCHANGED << config, disk, dirs, run, prev, disk0, pc, started,
                  collected, results, files, report, lock, net >>

\* download.rs:113: chunk().await? on a transport error
ChunkFail(i) ==
  /\ InStage /\ tasks[i].pc = "recv"
  /\ Failed(i)
  /\ UNCHANGED << config, dirs, run, prev, disk0, started, collected,
                  results, files, report, lock, net >>

\* download.rs:114-117: inc_and_draw(&progress_bar, chunk.len()) under the
\* guard, which is dropped at the end of the statement
IncAndDraw(i) ==
  /\ InStage /\ tasks[i].pc = "ininc"
  /\ tasks' = [tasks EXCEPT
                 ![i].pc = "write",
                 ![i].bar = Some([tasks[i].bar[1] EXCEPT !.cur = @ + 1])]
  /\ lock' = GuardDropped(i)
  /\ UNCHANGED << config, disk, dirs, run, prev, disk0, pc, started,
                  collected, results, files, report, net >>

\* download.rs:118: data.write_all(&chunk)
WriteChunk(i) ==
  /\ InStage /\ tasks[i].pc = "write"
  /\ tasks' = [tasks EXCEPT ![i].pc = "recv"]
  /\ UNCHANGED << config, disk, dirs, run, prev, disk0, pc, started,
                  collected, results, files, report, lock, net >>

\* download.rs:118: write_all(..)? fails; data is a File only in the
\* download stage (cli.rs:108), a Vec in the fetch stage (download.rs:139)
WriteFail(i) ==
  /\ pc = "exec" /\ tasks[i].pc = "write"
  /\ Failed(i)
  /\ UNCHANGED << config, dirs, run, prev, disk0, started, collected,
                  results, files, report, lock, net >>

----------------------------------------------------------------------------
(* main, from the plan to the end of the run                               *)

\* a report that never ends the run
StatusOnly_Ignored == FALSE

\* cli.rs:86: args.command == Commands::Status
StatusOnly == command = "Status"

\* a fetch stage that hands over as soon as one result is in
FetchDone_First == collected >= 1

\* download.rs:153-155: collect() resolves when the stream of fetches ends
FetchDone == collected = Len(podcast)

\* download.rs:157-207 and cli.rs:61-99: the plan is collected, or unwrap()
\* panics on a failed fetch; main reports the total, and returns at once
\* for an empty plan and under Status.  The addition at cli.rs:72 panics on
\* overflow in a build with overflow checks and wraps in one without.
PlanAndReport ==
  /\ pc = "fetch"
  /\ FetchDone
  /\ IF PlanPanics(results)
     THEN /\ pc' = "panic_plan"
          /\ UNCHANGED << files, report, tasks, started, lock >>
     ELSE LET plan == PlanOf(results, disk)
              sizes == SizeReport(plan)
          IN  /\ files' = plan
              /\ IF Len(plan) = 0
                 THEN /\ pc' = "nothing"
                      /\ UNCHANGED << report, tasks, started, lock >>
                 ELSE \E overflow_checks \in BOOLEAN :
                        IF sizes.overflow /\ overflow_checks
                        THEN /\ pc' = "panic_sum"
                             /\ UNCHANGED << report, tasks, started, lock >>
                        ELSE /\ report' = sizes
                             /\ IF StatusOnly
                                THEN /\ pc' = "status"
                                     /\ UNCHANGED << tasks, started, lock >>
                                ELSE /\ pc' = "exec"
                                     /\ StageStart(Len(plan))
  /\ UNCHANGED << config, disk, dirs, run, prev, disk0, collected, results,
                  net >>

\* a download stream that keeps one slot unused
DownloadSlotFree_OneLess == Cardinality(Active) < max_jobs - 1

\* cli.rs:104: for_each_concurrent(max_jobs, ..) takes the next download
\* while fewer than max_jobs futures are pending
DownloadSlotFree == Cardinality(Active) < max_jobs

\* Path::parent
Parent(file_path) == SubSeq(file_path, 1, Len(file_path) - 1)

\* a download written to a temporary file that is never renamed
TargetFile_Part(dl) == Append(Parent(dl.file_path), "part")

\* cli.rs:108: File::create(&dl.file_path)
TargetFile(dl) == dl.file_path

\* cli.rs:102-116: the next download is taken from the stream; its first
\* poll creates the directory and the file and enters download_file
StartDownload(i) ==
  /\ pc = "exec"
  /\ i = started + 1
  /\ i <= Len(files)
  /\ DownloadSlotFree
  /\ started' = i
  /\ dirs' = dirs \cup { Parent(files[i].file_path) }
  /\ disk' = disk \cup { TargetFile(files[i]) }
  /\ tasks' = [tasks EXCEPT ![i] = Enter(files[i].file_size)]
  /\ net' = EnterNet(files[i].file_size)
  /\ UNCHANGED << config, run, prev, disk0, pc, collected, results, files,
                  report, lock >>

\* cli.rs:107-108: create_dir_all(..).unwrap() or File::create(..).unwrap()
\* panics
StartDownloadFail(i) ==
  /\ pc = "exec"
  /\ i = started + 1
  /\ i <= Len(files)
  /\ DownloadSlotFree
  /\ started' = i
  /\ \E dir_created \in BOOLEAN :
       dirs' = IF dir_created THEN dirs \cup { Parent(files[i].file_path) }
               ELSE dirs
  /\ tasks' = Dropped(i)
  /\ pc' = "panic_download"
  /\ UNCHANGED << config, disk, run, prev, disk0, collected, results, files,
                  report, lock, net >>

\* cli.rs:120-121: every download completed
Finish ==
  /\ pc = "exec"
  /\ \A i \in DOMAIN tasks : tasks[i].pc = "ok"
  /\ pc' = "done"
  /\ UNCHANGED << config, disk, dirs, run, prev, disk0, tasks, started,
                  collected, results, files, report, lock, net >>

\* the target files, left on disk, of the downloads in flight when the
\* download stage of this run panicked
Interrupted ==
  IF pc = "panic_download"
  THEN { files[i].file_path :
           i \in { j \in DOMAIN tasks : tasks[j].pc \in { "err", "dropped" } } }
         \cap disk
  ELSE { }

\* the program is run again with the same arguments, over the download
\* directory as the run before left it
Rerun ==
  /\ pc \in Terminal
  /\ run < MaxRuns
  /\ run' = run + 1
  /\ prev' = pc
  /\ disk0' = [disk |-> disk, dirs |-> dirs,
               interrupted |-> disk0.interrupted \cup Interrupted]
  /\ pc' = "start"
  /\ tasks' = << >>
  /\ started' = 0
  /\ collected' = 0
  /\ results' = << >>
  /\ files' = << >>
  /\ report' = NoReport
  /\ lock' = 0
  /\ net' = {}
  /\ UNCHANGED << config, disk, dirs >>

TaskIds == 1..(MaxPodcasts + 1)

Next ==
  \/ CheckDir
  \/ \E i \in TaskIds : StartFetch(i)
  \/ Collect
  \/ PlanAndReport
  \/ \E i \in TaskIds : StartDownload(i)
  \/ \E i \in TaskIds : StartDownloadFail(i)
  \/ \E i \in DOMAIN tasks : HeadDone(i)
  \/ \E i \in DOMAIN tasks : Acquire(i)
  \/ \E i \in DOMAIN tasks : CreateBar(i)
  \/ \E i \in DOMAIN tasks : SendDone(i)
  \/ \E i \in DOMAIN tasks : SendFail(i)
  \/ \E i \in DOMAIN tasks : ChunkRecv(i)
  \/ \E i \in DOMAIN tasks : ChunkEnd(i)
  \/ \E i \in DOMAIN tasks : ChunkFail(i)
  \/ \E i \in DOMAIN tasks : IncAndDraw(i)
  \/ \E i \in DOMAIN tasks : WriteChunk(i)
  \/ \E i \in DOMAIN tasks : WriteFail(i)
  \/ Finish
  \/ Rerun

Spec == Init /\ [][Next]_vars

TypeOK ==
  /\ pc \in { "start", "fetch", "exec" } \cup Terminal
  /\ run \in 1..MaxRuns
  /\ lock \in 0..Len(tasks)
  /\ started \in 0..Len(tasks)
  /\ pc = "fetch" => collected \in 0..started
  /\ disk0.disk \subseteq disk

----------------------------------------------------------------------------
(* The planner on its own: one subscription whose feed was fetched, the    *)
(* channel drawn from every feed of up to two items                        *)

LengthChars == { "0", "5", "+", "x" }

LengthStrings == UNION { [1..n -> LengthChars] : n \in 0..MaxLengthLen }

WideUrls ==
  { << "https:", "", "h", "ep", "a.mp3" >>,
    << "https:", "", "h", "b.mp3" >> }

\* enclosures of every declared length, an enclosure whose URL does not
\* parse, and an item without enclosure
WideItems ==
  { Item(u, l) : u \in WideUrls, l \in LengthStrings }
    \cup { Item(<< "ep", "c.mp3" >>, << "5" >>), NoEnclosure }

WideChannels ==
  { [title |-> << "T1" >>, items |-> its] :
      its \in UNION { [1..n -> WideItems] : n \in 0..2 } }

WideDisks == SUBSET { << "dl", "T1", "a.mp3" >>, << "dl", "T1", "b.mp3" >> }

InitPlan ==
  /\ command = "Sync"
  /\ download_dir_is_dir = TRUE
  /\ max_parallel_downloads = None
  /\ podcast = << [feed_url |-> UrlFeedA, title |-> None] >>
  /\ disk \in WideDisks
  /\ dirs = DirsOf(disk)
  /\ run = 1
  /\ prev = "none"
  /\ disk0 = [disk |-> disk, dirs |-> dirs, interrupted |-> { }]
  /\ pc = "fetch"
  /\ tasks = << [pc |-> "ok", size |-> None,
                 bar |-> Some([total |-> 1, cur |-> 0])] >>
  /\ started = 1
  /\ collected = 1
  /\ \E channel \in WideChannels :
       results = << Ok([podcast |-> podcast[1], channel |-> channel]) >>
  /\ files = << >>
  /\ report = NoReport
  /\ lock = 0
  /\ net = { << "feed", "HEAD" >>, << "feed", "GET" >> }

NextPlan == PlanAndReport

SpecPlan == InitPlan /\ [][NextPlan]_vars

(***************************************************************************)
(* Path resolution over a wide input: one podcast with one enclosure, the  *)
(* URL's path and both titles drawn from bounded sets.                     *)
(***************************************************************************)
MaxSegs == 3

SegPieces == { "ep", "a.mp3", "" }

RECURSIVE SegSeqs(_)
SegSeqs(n) ==
  IF n = 0 THEN { << >> }
  ELSE LET shorter == SegSeqs(n - 1)
       IN  shorter \cup { Append(p, c) : p \in shorter, c \in SegPieces }

PathUrls == { << "https:", "", "h" >> \o p : p \in SegSeqs(MaxSegs) }

ChannelTitles == { << "T1" >>, << "T1", "s2" >>, << "", "abs" >> }

TitleOverrides == { None, Some(<< "T2" >>), Some(<< "", "abs" >>) }

InitPath ==
  /\ command = "Sync"
  /\ download_dir_is_dir = TRUE
  /\ max_parallel_downloads = None
  /\ \E t \in TitleOverrides :
       podcast = << [feed_url |-> UrlFeedA, title |-> t] >>
  /\ disk = { }
  /\ dirs = DirsOf(disk)
  /\ run = 1
  /\ prev = "none"
  /\ disk0 = [disk |-> disk, dirs |-> dirs, interrupted |-> { }]
  /\ pc = "fetch"
  /\ tasks = << [pc |-> "ok", size |-> None,
                 bar |-> Some([total |-> 1, cur |-> 0])] >>
  /\ started = 1
  /\ collected = 1
  /\ \E title \in ChannelTitles, url \in PathUrls :
       results = << Ok([podcast |-> podcast[1],
                        channel |-> [title |-> title,
                                     items |-> << Item(url, << "5" >>) >>]]) >>
  /\ files = << >>
  /\ report = NoReport
  /\ lock = 0
  /\ net = { << "feed", "HEAD" >>, << "feed", "GET" >> }

SpecPath == InitPath /\ [][NextPlan]_vars

(***************************************************************************)
(* The size formatter over a wide input: the total of the report is drawn  *)
(* from a bounded set that holds every unit boundary, and the one step     *)
(* formats it.                                                             *)
(***************************************************************************)
MaxSize == 2000

SizeInputs ==
  (0..MaxSize) \cup { k * unit + d : unit \in { 1000, 1000000, 1000000000 },
                                     k \in { 1, 2 }, d \in { -1, 0, 1 } }

InitSize ==
  /\ command \in Commands
  /\ download_dir_is_dir = TRUE
  /\ max_parallel_downloads = None
  /\ podcast = << >>
  /\ disk = { }
  /\ dirs = DirsOf(disk)
  /\ run = 1
  /\ prev = "none"
  /\ disk0 = [disk |-> disk, dirs |-> dirs, interrupted |-> { }]
  /\ pc = "sum"
  /\ tasks = << >>
  /\ started = 0
  /\ collected = 0
  /\ results = << >>
  /\ files = << >>
  /\ \E total_size \in SizeInputs :
       report = [NoReport EXCEPT !.total = total_size]
  /\ lock = 0
  /\ net = { }

\* cli.rs:75: let (human_size, human_size_suffix) = to_human_size(total_size)
HumanSize ==
  /\ pc = "sum"
  /\ report' = [report EXCEPT !.human = to_human_size(report.total)]
  /\ pc' = "sized"
  /\ UNCHANGED << config, disk, dirs, run, prev, disk0, tasks, started,
                  collected, results, files, lock, net >>

NextSize == HumanSize

SpecSize == InitSize /\ [][NextSize]_vars

(***************************************************************************)
(* One run in which every network request and every file operation         *)
(* completes without error.  The stage futures are polled by the one task  *)
(* of block_on: a future that can take its next step is polled again once  *)
(* its waker has fired, and main continues once the stream it awaits has   *)
(* a result, so each of them is weakly fair.                               *)
(***************************************************************************)
TaskStep(i) ==
  \/ StartFetch(i)
  \/ StartDownload(i)
  \/ /\ i \in DOMAIN tasks
     /\ \/ HeadDone(i)
        \/ Acquire(i)
        \/ CreateBar(i)
        \/ SendDone(i)
        \/ ChunkRecv(i)
        \/ ChunkEnd(i)
        \/ IncAndDraw(i)
        \/ WriteChunk(i)

MainStep ==
  \/ CheckDir
  \/ Collect
  \/ Finish

\* PlanAndReport is enabled exactly when the fetch stage has handed over,
\* and taking it leaves that condition
PlanPending == pc = "fetch" /\ FetchDone

NextLive ==
  \/ MainStep
  \/ PlanAndReport
  \/ \E i \in TaskIds : TaskStep(i)

\* weak fairness of PlanAndReport is written with its enabling condition
SpecLive ==
  /\ Init
  /\ [][NextLive]_vars
  /\ WF_vars(MainStep)
  /\ []<>~PlanPending
  /\ \A i \in TaskIds : WF_vars(TaskStep(i))

----------------------------------------------------------------------------
(* Properties                                                              *)

Range(seq) == { seq[k] : k \in 1..Len(seq) }

\* fetch_sync_info has returned its plan to main
Planned == pc \in { "nothing", "status", "exec", "done", "panic_sum",
                    "panic_download" }

\* C1: in every reachable state the feed fetches that have started and not
\* finished number at most max_jobs, and so do the downloads that have
\* started and not finished.
C1_ConcurrencyBound ==
  /\ pc = "fetch" => Cardinality(Active) <= max_jobs
  /\ pc = "exec" => Cardinality(Active) <= max_jobs

\* C1 witness: the fetch stage runs max_jobs fetches while a further
\* subscription waits for a slot.
C1_Witness ==
  /\ pc = "fetch"
  /\ Cardinality(Active) = max_jobs
  /\ started < Len(podcast)

\* C2: in a batch where one feed failed, every feed that was fetched and
\* parsed is still planned, and under Sync its planned episode is
\* downloaded, once the run has ended.
C2_FeedIsolation ==
  ( /\ pc \in Terminal
    /\ collected = Len(podcast)
    /\ \E i \in 1..Len(results) : ~results[i].ok )
  => \A i \in 1..Len(results) :
       results[i].ok =>
         \A e \in Range(PodcastPlan(results[i].val, disk0.disk)) :
           /\ e \in Range(files)
           /\ command = "Sync" => e.file_path \in disk

\* C3: when a download task has failed, every sibling task of the batch
\* has run or still runs to its own completion: none was dropped in flight
\* and none is left unstarted.
C3_DownloadIsolation ==
  pc = "panic_download" =>
    \A j \in DOMAIN tasks : tasks[j].pc \in { "ok", "err" }

\* C4: when a Sync run has completed and the program runs again over the
\* same feeds and the download directory as that run left it, the plan of
\* the second run is empty.
C4_Idempotence ==
  ( /\ run > 1
    /\ command = "Sync"
    /\ prev \in { "done", "nothing" }
    /\ Planned )
  => files = << >>

\* C4 witness: the run before downloaded its whole plan, and this run has
\* planned.
C4_Witness ==
  /\ run > 1
  /\ prev = "done"
  /\ pc = "nothing"

\* C5: no task of the plan has a target path at which a file existed when
\* the plan was computed.
C5_Dedup ==
  Planned => \A k \in 1..Len(files) : files[k].file_path \notin disk0.disk

\* C5 witness: a plan that holds a task and from which the episode of
\* another podcast was left out, because its file exists.
C5_Witness ==
  /\ pc \in { "status", "exec" }
  /\ Len(files) > 0
  /\ \E i \in 1..Len(results) :
       LET eps == Episodes(results[i].val.channel.items,
                           PodcastPath(results[i].val.podcast,
                                       results[i].val.channel))
       IN  results[i].ok /\ Len(eps) > 0 /\ eps[1].file_path \in disk0.disk

\* C6: within one run no two planned download tasks have the same target
\* file path, so no two downloads that run at once write the same file.
C6_DistinctPaths ==
  /\ Planned =>
       \A a, b \in 1..Len(files) :
         a # b => files[a].file_path # files[b].file_path
  /\ pc = "exec" =>
       \A a, b \in Active :
         a # b => TargetFile(files[a]) # TargetFile(files[b])

\* C7: the registry is mutated only under its lock: at most one task is
\* inside a bar creation or an increment-and-redraw, and that task is the
\* holder of the lock.
C7_MutualExclusion ==
  LET inside == { i \in DOMAIN tasks : tasks[i].pc \in { "inbar", "ininc" } }
  IN  /\ Cardinality(inside) <= 1
      /\ InStage => \A i \in inside : lock = i

\* C7 witness: one task is inside the registry while another waits for
\* the lock.
C7_Witness ==
  /\ InStage
  /\ \E i, j \in DOMAIN tasks :
       /\ i # j
       /\ tasks[i].pc \in { "inbar", "ininc" }
       /\ tasks[j].pc \in { "lockbar", "lockinc" }

\* the sum of the declared sizes that are known
RECURSIVE KnownSum(_)
KnownSum(fs) ==
  IF Len(fs) = 0 THEN 0
  ELSE UnwrapOr(Head(fs).file_size, 0) + KnownSum(Tail(fs))

\* C8: the reported partial flag is true exactly when some planned task
\* has an unknown declared size, and the reported total is the sum of the
\* declared sizes that are known.
C8_SizeReport ==
  pc \in { "status", "exec", "done", "panic_download" } =>
    /\ report.partial <=> \E k \in 1..Len(files) : files[k].file_size = None
    /\ report.total = KnownSum(files)

\* a length string that is no decimal numeral (with an optional leading +)
BadLength(l) ==
  \/ Len(l) = 0
  \/ l = << "+" >>
  \/ \E k \in 1..Len(l) : l[k] \notin Digits \cup { "+" }
  \/ \E k \in 2..Len(l) : l[k] = "+"

\* a numeral whose digits are all 0
ZeroLength(l) ==
  /\ ~BadLength(l)
  /\ \A k \in 1..Len(l) : l[k] \in { "0", "+" }

\* the enclosures of the items that have one with a URL that parses
RECURSIVE Eligible(_)
Eligible(items) ==
  IF Len(items) = 0 THEN << >>
  ELSE (IF /\ IsSome(Head(items).enclosure)
           /\ IsSome(UrlParse(Head(items).enclosure[1].url))
        THEN << Head(items).enclosure[1] >> ELSE << >>)
       \o Eligible(Tail(items))

\* C9: a declared length that is 0 or no numeral gives a task of unknown
\* size, no planned task has a known size of 0, and a Content-Length
\* header of such a value (here: of each value the feed declares) gives
\* an unknown size too.
C9_SizeNormalization ==
  /\ Planned =>
       \A k \in 1..Len(files) :
         /\ files[k].file_size # Some(0)
         /\ LET length == Eligible(results[1].val.channel.items)[1].length
            IN  (BadLength(length) \/ ZeroLength(length))
                  => files[k].file_size = None
  /\ \A enc \in Range(Eligible(results[1].val.channel.items)) :
       (BadLength(enc.length) \/ ZeroLength(enc.length))
         => ContentLength([ok |-> TRUE, len |-> Some(enc.length)]) = None

\* C9 witness: a task was planned for an enclosure that declares the
\* length "00", and its size is unknown.
C9_Witness ==
  /\ Planned
  /\ Len(files) = 1
  /\ Eligible(results[1].val.channel.items)[1].length = << "0", "0" >>
  /\ files[1].file_size = None

\* the episodes of a fetched podcast, in feed order
EpisodesOf(r) ==
  Episodes(r.val.channel.items, PodcastPath(r.val.podcast, r.val.channel))

\* per podcast, the first episode whose target file is not in d
RECURSIVE FirstUndownloaded(_, _)
FirstUndownloaded(rs, d) ==
  IF Len(rs) = 0 THEN << >>
  ELSE LET new == SelectSeq(EpisodesOf(Head(rs)),
                            LAMBDA e : e.file_path \notin d)
       IN  (IF Len(new) > 0 THEN << new[1] >> ELSE << >>)
           \o FirstUndownloaded(Tail(rs), d)

\* per podcast, the first episode, if its target file is not in d
RECURSIVE FirstIfNew(_, _)
FirstIfNew(rs, d) ==
  IF Len(rs) = 0 THEN << >>
  ELSE LET eps == EpisodesOf(Head(rs))
       IN  (IF Len(eps) > 0 /\ eps[1].file_path \notin d
            THEN << eps[1] >> ELSE << >>)
           \o FirstIfNew(Tail(rs), d)

\* C10 as stated: the plan holds, for each podcast that has an eligible
\* episode whose target file does not exist, exactly the first such
\* episode.
C10_FirstUndownloaded ==
  Planned => files = FirstUndownloaded(results, disk0.disk)

\* C10 as amended: the plan holds, for each podcast, at most one episode:
\* the first eligible episode in feed order, and only if its target file
\* does not exist; a podcast whose first eligible episode exists
\* contributes nothing, whatever its later episodes.
C10_FirstEligibleIfNew ==
  Planned => files = FirstIfNew(results, disk0.disk)

\* C10 witness: the first episode of the podcast is on disk, a later one
\* is not, and the plan is empty.
C10_Witness ==
  /\ pc = "nothing"
  /\ Len(results) = 1
  /\ LET eps == EpisodesOf(results[1])
     IN  /\ Len(eps) = 2
         /\ eps[1].file_path \in disk0.disk
         /\ eps[2].file_path \notin disk0.disk

\* the last path segment of a URL, "episode.mp3" when there is none
LastSegment(url) ==
  IF Len(url.path) = 0 \/ url.path[Len(url.path)] = ""
  THEN "episode.mp3"
  ELSE url.path[Len(url.path)]

\* the subscription's title override when present, else the channel's title
TitleOf(r) ==
  IF IsSome(r.val.podcast.title) THEN r.val.podcast.title[1]
  ELSE r.val.channel.title

\* C11: every planned task's target path is the download directory, then
\* the effective title, then the last path segment of the enclosure URL
\* ("episode.mp3" when the URL has no path segment).
C11_PathResolution ==
  (Planned /\ Len(results) = 1 /\ results[1].ok) =>
    \A k \in 1..Len(files) :
      files[k].file_path =
        Directory \o Components(TitleOf(results[1]))
                  \o << LastSegment(files[k].url) >>

\* the size formatter as the documentation states it
RefHumanSize(n) ==
  CASE n >= 10 ^ 9 -> << n \div 10 ^ 9, "G" >>
    [] n < 10 ^ 9 /\ n >= 10 ^ 6 -> << n \div 10 ^ 6, "M" >>
    [] n < 10 ^ 6 /\ n >= 1000 -> << n \div 1000, "K" >>
    [] n < 1000 -> << n, "B" >>

HumanSizeExamples ==
  { << 0, << 0, "B" >> >>, << 999, << 999, "B" >> >>,
    << 1000, << 1, "K" >> >>, << 1999, << 1, "K" >> >>,
    << 1999999, << 1, "M" >> >>, << 10 ^ 9, << 1, "G" >> >> }

\* C12: the formatted size is the largest decimal unit not above the
\* input with the truncated quotient, for every input, and the listed
\* examples come out as listed.
C12_HumanSize ==
  pc = "sized" =>
    /\ report.human = RefHumanSize(report.total)
    /\ \A e \in HumanSizeExamples :
         report.total = e[1] => report.human = e[2]

\* C12 witness: 1999999 bytes were formatted as 1M.
C12_Witness ==
  /\ pc = "sized"
  /\ report.total = 1999999
  /\ report.human = << 1, "M" >>

\* C13: in a run whose download directory does not exist, the run is
\* either not yet past the directory check or stopped at it; no request
\* has been issued, no task exists, and the disk is as the run found it.
C13_NoDirStopsFirst ==
  ~download_dir_is_dir =>
    /\ pc \in { "start", "nodir" }
    /\ net = { }
    /\ tasks = << >>
    /\ disk = disk0.disk /\ dirs = disk0.dirs

\* C13 witness: a run with subscriptions stopped at the directory check.
C13_Witness ==
  /\ pc = "nodir"
  /\ Len(podcast) > 0
  /\ run = MaxRuns

\* C14: a podcast contributes at most one task; a task is the first item
\* in feed order that has an enclosure whose URL parses, and its target
\* file does not exist; when the target of that first eligible item
\* exists, the podcast contributes nothing.
C14_OneTaskFirstEligible ==
  (Planned /\ Len(results) = 1 /\ results[1].ok) =>
    LET encs == Eligible(results[1].val.channel.items)
    IN  /\ Len(files) <= 1
        /\ Len(files) = 1 =>
              /\ Len(encs) > 0
              /\ Some(files[1].url) = UrlParse(encs[1].url)
              /\ files[1].file_path \notin disk0.disk
        /\ (Len(encs) > 0 /\ EpisodesOf(results[1])[1].file_path
                                \in disk0.disk) =>
              files = << >>

\* C14 witness: the first item of the feed is skipped (no enclosure, or
\* a URL that does not parse) and the second, eligible one is planned.
C14_Witness ==
  /\ pc = "exec"
  /\ Len(files) = 1
  /\ LET items == results[1].val.channel.items
     IN  /\ Len(items) = 2
         /\ Eligible(<< items[1] >>) = << >>
         /\ Len(Eligible(items)) = 1

\* the states of a run in and after the download stage
Executing == { "exec", "done", "panic_download" }

EnclosureRequests == { q \in net : q[1] = "enclosure" }

\* C15: before the download stage no enclosure request has been issued
\* and nothing has been created on disk; in and after the download stage
\* every feed fetch has finished and been collected and the plan is the
\* one computed from the results; and a run that has entered the download
\* stage never starts a fetch again (it stays in or after that stage).
C15_StageOrder ==
  /\ [](pc \notin Executing =>
          /\ EnclosureRequests = { }
          /\ disk = disk0.disk /\ dirs = disk0.dirs)
  /\ [](pc \in Executing =>
          /\ collected = Len(podcast)
          /\ Len(results) = Len(podcast)
          /\ \A k \in 1..Len(results) : results[k].ok
          /\ files = PlanOf(results, disk0.disk)
          /\ Len(files) > 0)
  /\ [][(pc \in Executing /\ run' = run) =>
          (pc' \in Executing /\ collected' = collected
                             /\ results' = results)]_vars

\* C15 witness: two feeds were fetched and a download has sent its GET.
C15_Witness ==
  /\ pc = "exec"
  /\ Len(podcast) = 2
  /\ << "enclosure", "GET" >> \in net
  /\ \E i \in DOMAIN tasks : tasks[i].pc = "recv"

\* the positions of a task between taking the lock and the end of the
\* statement that took it
Holding == { "inbar", "ininc" }

\* C16: while a stage runs, the lock is held only by a task that is
\* registering its bar or doing one increment and redraw; a task that
\* awaits a HEAD, the GET, a chunk, or that writes a chunk, or that has
\* ended, does not hold it.
C16_LockHeldBriefly ==
  InStage =>
  /\ lock # 0 => (lock \in DOMAIN tasks /\ tasks[lock].pc \in Holding)
  /\ \A i \in DOMAIN tasks :
       tasks[i].pc \in { "head", "send", "recv", "write", "ok", "err" }
         => lock # i

\* C16 witness: a task that has advanced its bar awaits its next chunk
\* while another task holds the lock for a redraw.
C16_Witness ==
  \E i, j \in DOMAIN tasks :
    /\ i # j
    /\ tasks[i].pc = "recv"
    /\ tasks[i].bar[1].cur > 0
    /\ tasks[j].pc = "ininc"
    /\ lock = j

\* C17: when a download fails in mid-transfer, the target file of every
\* download then in flight is on disk after the failure; and no later run
\* plans an episode whose target file an earlier run left half-written.
C17_InterruptedNotReplanned ==
  /\ [][(pc = "exec" /\ pc' = "panic_download"
          /\ \E i \in DOMAIN tasks : tasks[i].pc \in Running) =>
          \A i \in DOMAIN tasks :
            tasks[i].pc \in Running => files[i].file_path \in disk']_vars
  /\ [](Planned =>
          \A k \in 1..Len(files) :
            files[k].file_path \notin disk0.interrupted)
  /\ [](Interrupted \subseteq disk)

\* C17 witness: the run before panicked in a download and left a file
\* half-written; this run, over the same feeds, has planned nothing.
C17_Witness ==
  /\ prev = "panic_download"
  /\ disk0.interrupted # { }
  /\ pc = "nothing"
  /\ command = "Sync"

\* the size download_file is called with by task i of the current stage
Declared(i) == IF pc \in Executing THEN files[i].file_size ELSE None

\* the Content-Length values a HEAD response can yield as a size
HeadSizes == { ContentLength(resp)[1] :
                 resp \in { r \in HeadResponses : IsSome(ContentLength(r)) } }

\* C18: a task awaits a HEAD only when its declared size is unknown, and
\* then has no bar yet and has not sent its GET; a task enters
\* download_file with a HEAD request exactly when its declared size is
\* unknown; a registered bar's total is the declared size when known, else
\* the positive Content-Length of the HEAD response, else 1; so it is at
\* least 1, for downloads and for feed fetches.
C18_HeadAndBarTotal ==
  /\ [](\A i \in DOMAIN tasks :
          /\ tasks[i].pc = "head" =>
                (Declared(i) = None /\ tasks[i].bar = None)
          /\ tasks[i].pc \in { "send", "recv", "lockinc", "ininc", "write" }
                => IsSome(tasks[i].bar)
          /\ IsSome(tasks[i].bar) =>
                LET total == tasks[i].bar[1].total
                IN  /\ total >= 1
                    /\ IsSome(Declared(i)) => total = Declared(i)[1]
                    /\ Declared(i) = None =>
                          /\ total \in HeadSizes \cup { 1 }
                          /\ total = UnwrapOr(tasks[i].size, 1))
  /\ [](<< "enclosure", "HEAD" >> \in net =>
          \E i \in 1..started : files[i].file_size = None)
  /\ [][\A i \in DOMAIN tasks :
          (InStage /\ pc' = pc /\ tasks[i].pc = "idle"
             /\ tasks'[i].pc \in Running) =>
            /\ tasks'[i].pc = "head" <=> Declared(i) = None
            /\ tasks'[i].pc = "head" => Request("HEAD") \in net'
            /\ tasks'[i].pc # "head" => net' = net]_vars
  /\ [][\A i \in DOMAIN tasks :
          (InStage /\ pc' = pc /\ tasks[i].pc # "head"
             /\ tasks[i].pc # "idle") => tasks'[i].pc # "head"]_vars

\* C18 witness: a download whose declared size is unknown has registered
\* its bar with the Content-Length its HEAD request returned.
C18_Witness ==
  /\ pc = "exec"
  /\ \E i \in DOMAIN tasks :
       /\ files[i].file_size = None
       /\ tasks[i].pc = "send"
       /\ tasks[i].bar[1].total = 4

\* C19: under Status, and in a run whose plan is empty, the disk is as
\* the run found it, no enclosure request has been issued and the run is
\* never in the download stage; a run that has changed the disk is a Sync
\* run with a non-empty plan, in or after its download stage.
C19_StatusAndEmptyPlanInert ==
  /\ (command = "Status" \/ pc = "nothing") =>
       /\ disk = disk0.disk /\ dirs = disk0.dirs
       /\ EnclosureRequests = { }
       /\ net \subseteq { << "feed", "HEAD" >>, << "feed", "GET" >> }
       /\ pc \notin Executing
  /\ (disk # disk0.disk \/ dirs # disk0.dirs) =>
       (command = "Sync" /\ Len(files) > 0 /\ pc \in Executing)

\* C19 witness: a Status run has listed a non-empty plan and returned.
C19_Witness ==
  /\ command = "Status"
  /\ pc = "status"
  /\ Len(files) > 0
  /\ << "feed", "GET" >> \in net

\* the positions of a future that has returned
Finished == { "ok", "err" }

\* C20: when no request and no file operation fails, the fetch stage
\* ends, and it ends with every feed fetch started and finished; the
\* download stage ends, and it ends with every planned task started and
\* completed; and within a stage no task is started a second time.
C20_StagesTerminate ==
  /\ (pc = "fetch") ~> (pc \notin { "start", "fetch" })
  /\ (pc = "exec") ~> (pc = "done")
  /\ [][(pc = "fetch" /\ pc' # "fetch") =>
          /\ started = Len(podcast)
          /\ \A i \in 1..Len(podcast) : tasks[i].pc \in Finished]_vars
  /\ [](pc = "done" =>
          /\ started = Len(files)
          /\ \A i \in 1..Len(files) : tasks[i].pc = "ok")
  /\ [][pc' = pc =>
          /\ started' \in { started, started + 1 }
          /\ \A i \in DOMAIN tasks :
               /\ tasks[i].pc # "idle" => tasks'[i].pc # "idle"
               /\ (tasks[i].pc = "idle" /\ tasks'[i].pc # "idle") =>
                    (i = started + 1 /\ started' = i)]_vars

\* C20 witness: with one job at a time, a plan of two downloads has run
\* to its end.
C20_Witness ==
  /\ pc = "done"
  /\ max_jobs = 1
  /\ Len(files) = 2
  /\ \A i \in 1..2 : tasks[i].pc = "ok" /\ tasks[i].bar[1].cur = MaxChunks

====
